---- MODULE Spec2Model ----
(***************************************************************************)
(* Mergeable heaps of the repository: the lazy binomial heap (lazy.h), the *)
(* unsorted doubly linked heap (unsorted.h), the sorted linked heap        *)
(* (sorted.h) and the generic sort of the MergeableHeap interface.         *)
(*                                                                         *)
(* Every backend is modelled at pointer level: a node is an index into an  *)
(* arena, 0 is nullptr, and each public method is one atomic action.       *)
(***************************************************************************)
EXTENDS Integers, Sequences, FiniteSets, TLC

\* ---------------------------------------------------------------- bounds
\* heaps, keys and nodes ever allocated in the general specification
NumHeaps == 2
MaxKey == 3
MaxNodes == 4
\* keys put into the single heap that is filled and then drained
MaxFill == 6
\* heaps and nodes of the specification that follows stale references
WideHeaps == 3
WideNodes == 2
\* nodes ever allocated before two partly drained heaps are merged
MergeFill == 5
\* keys held by a heap when the generic sort starts
SortFill == 3
EquivHeaps == 2
EquivNodes == 3
SortedHeaps == 2
SortedNodes == 4
\* heaps, keys and nodes of the specification that checks the shape of the forest
ForestHeaps == 2
ForestKeys == 2
ForestNodes == 5
\* heaps, keys and nodes of the specification that runs consolidate step by step
StepHeaps == 2
StepKeys == 1
StepNodes == 5
\* heaps, keys and nodes of the specification that ends with the heaps' destructors
TearHeaps == 2
TearKeys == 1
TearNodes == 5
\* heaps, keys and nodes of the specification of the heap.h revision
OldHeaps == 2
OldKeys == 2
OldNodes == 5
\* heaps and nodes of the specification of the unsorted backend on its own
UnsHeaps == 2
UnsNodes == 4

Max(a, b) == IF a > b THEN a ELSE b

Keys == 1..MaxKey
Heaps == 1..Max(NumHeaps, WideHeaps)
Nodes == 1..Max(Max(MaxNodes, MaxFill), Max(Max(WideNodes, MergeFill), 2 * SortFill))

\* nullptr and std::nullopt
Null == 0
Absent == 0

VARIABLES
  \* LazyBinomialHeap: the node arena and the heap objects
  key, degree, sibling, child, alive, nalloc,
  min, head, tail, size,
  \* the last call made on the lazy backend, its result, and whether a freed
  \* node was ever read
  ret, ub,
  \* a scripted use of one heap: where the script stands, the keys it has
  \* inserted so far and the results extract_min has handed back so far
  pc, inserted, extracted, kind,
  \* the lazy heaps that were the other heap of a merge so far, where a
  \* specification keeps track of them
  sources,
  \* a consolidate call that is under way: the buckets, the bucket the outer
  \* loop stands at, and the links of the nodes as the call has left them
  cons,
  \* how often each node was destroyed, and the heaps whose destructor has run
  freed, torn,
  \* UnsortedLinkedHeap: the node arena, the heap objects and the last call
  u_key, u_next, u_prev, u_alive, u_nalloc, u_head, u_tail, u_min, u_ret,
  \* SortedLinkedHeap: the node arena, the heap objects and the last call
  s_key, s_next, s_prev, s_alive, s_nalloc, s_head, s_ret

scriptVars == <<pc, inserted, extracted, kind, sources, cons, freed, torn>>

unsVars == <<u_key, u_next, u_prev, u_alive, u_nalloc, u_head, u_tail, u_min, u_ret>>

srtVars == <<s_key, s_next, s_prev, s_alive, s_nalloc, s_head, s_ret>>

lazyVars == <<key, degree, sibling, child, alive, nalloc, min, head, tail, size, ret, ub>>

\* ------------------------------------------------------------- helpers
\* *p for a Node* p used as a key: a live node yields its key; a freed (or
\* null) node is undefined behaviour and may yield any key.
ReadKey(n) == IF n \in alive THEN {key[n]} ELSE Keys

\* the nodes on the sibling chain that starts at n, in order
RECURSIVE Chain(_, _)
Chain(sib, n) == IF n = Null THEN <<>> ELSE <<n>> \o Chain(sib, sib[n])

\* the last node of the sibling chain that starts at n (extract_min's while loop)
RECURSIVE LastOf(_, _)
LastOf(sib, n) == IF sib[n] = Null THEN n ELSE LastOf(sib, sib[n])

\* smallest c with 2^c >= n, i.e. std::ceil(std::log2(n)) for n >= 1
RECURSIVE CeilLog2From(_, _, _)
CeilLog2From(n, c, p) == IF p >= n THEN c ELSE CeilLog2From(n, c + 1, 2 * p)

CeilLog2(n) == CeilLog2From(n, 0, 1)

\* --------------------------------------------------- LazyBinomialHeap
\* update_min: the first root, in list order, that holds the smallest key
RECURSIVE update_min_scan(_, _, _)
update_min_scan(sib, curr, m) ==
  IF curr = Null THEN m
  ELSE update_min_scan(sib, sib[curr], IF key[curr] < key[m] THEN curr ELSE m)

update_min(sib, hd) == IF hd = Null THEN Null ELSE update_min_scan(sib, sib[hd], hd)

\* remove_min: the scan for the minimum root and its predecessor
RECURSIVE remove_min_scan(_, _, _, _, _)
remove_min_scan(sib, curr, prev, min_node, prev_min) ==
  IF curr = Null THEN [min_node |-> min_node, prev_min |-> prev_min]
  ELSE IF key[curr] < key[min_node]
       THEN remove_min_scan(sib, sib[curr], curr, curr, prev)
       ELSE remove_min_scan(sib, sib[curr], curr, min_node, prev_min)

\* remove_min: splice the minimum root out of the root list of heap h
remove_min(h) ==
  IF head[h] = Null
  THEN [min_node |-> Null, sibling |-> sibling, head |-> Null, tail |-> tail[h], size |-> size[h]]
  ELSE LET s == remove_min_scan(sibling, sibling[head[h]], head[h], head[h], Null)
           m == s.min_node
           p == s.prev_min
       IN [min_node |-> m,
           sibling  |-> IF m = head[h] THEN sibling
                        ELSE [sibling EXCEPT ![p] = sibling[m]],
           head     |-> IF m = head[h] THEN sibling[head[h]] ELSE head[h],
           tail     |-> IF m = tail[h] THEN p ELSE tail[h],
           size     |-> size[h] - 1]

\* link without the comparison: tree2 always becomes the child of tree1
link_no_swap(f, tree1, tree2) ==
  [sibling |-> [f.sibling EXCEPT ![tree2] = f.child[tree1]],
   child   |-> [f.child EXCEPT ![tree1] = tree2],
   degree  |-> [f.degree EXCEPT ![tree1] = f.degree[tree1] + 1],
   root    |-> tree1]

\* link that leaves the degree of the new root as it was
link_degree_kept(f, tree1, tree2) ==
  LET t1 == IF key[tree1] > key[tree2] THEN tree2 ELSE tree1
      t2 == IF key[tree1] > key[tree2] THEN tree1 ELSE tree2
  IN [sibling |-> [f.sibling EXCEPT ![t2] = f.child[t1]],
      child   |-> [f.child EXCEPT ![t1] = t2],
      degree  |-> f.degree,
      root    |-> t1]

\* link with the comparison turned round: the smaller key becomes the child
link_flipped(f, tree1, tree2) ==
  LET t1 == IF key[tree1] < key[tree2] THEN tree2 ELSE tree1
      t2 == IF key[tree1] < key[tree2] THEN tree1 ELSE tree2
  IN [sibling |-> [f.sibling EXCEPT ![t2] = f.child[t1]],
      child   |-> [f.child EXCEPT ![t1] = t2],
      degree  |-> [f.degree EXCEPT ![t1] = f.degree[t1] + 1],
      root    |-> t1]

\* link: the tree with the larger key becomes the first child of the other
link(f, tree1, tree2) ==
  LET t1 == IF key[tree1] > key[tree2] THEN tree2 ELSE tree1
      t2 == IF key[tree1] > key[tree2] THEN tree1 ELSE tree2
  IN [sibling |-> [f.sibling EXCEPT ![t2] = f.child[t1]],
      child   |-> [f.child EXCEPT ![t1] = t2],
      degree  |-> [f.degree EXCEPT ![t1] = f.degree[t1] + 1],
      root    |-> t1]

\* count_sort's loop with every root pushed on bucket 0, whatever its degree
RECURSIVE count_sort_loop_flat(_, _, _)
count_sort_loop_flat(f, count, curr) ==
  IF curr = Null THEN [sibling |-> f.sibling, count |-> count, oob |-> f.oob]
  ELSE count_sort_loop_flat([f EXCEPT !.sibling = [f.sibling EXCEPT ![curr] = Null]],
                            [count EXCEPT ![1] = Append(count[1], curr)],
                            f.sibling[curr])

\* count_sort: ceil(log2(size)) + 1 buckets; every root is cut off its sibling
\* and pushed on the bucket of its degree. Bucket i of the code is count[i + 1].
\* A degree outside the vector is an out-of-range access, recorded in oob.
RECURSIVE count_sort_loop(_, _, _)
count_sort_loop(f, count, curr) ==
  IF curr = Null THEN [sibling |-> f.sibling, count |-> count, oob |-> f.oob]
  ELSE LET next == f.sibling[curr]
           d    == f.degree[curr]
           g    == [f EXCEPT !.sibling = [f.sibling EXCEPT ![curr] = Null]]
       IN IF d + 1 \in DOMAIN count
          THEN count_sort_loop(g, [count EXCEPT ![d + 1] = Append(count[d + 1], curr)], next)
          ELSE count_sort_loop([g EXCEPT !.oob = TRUE], count, next)

\* count_sort with size + 2 buckets, a number that grows linearly with size
count_sort_wide(f, hd, sz) ==
  count_sort_loop([sibling |-> f.sibling, degree |-> f.degree, oob |-> FALSE],
                  [i \in 1..(sz + 2) |-> <<>>], hd)

\* count_sort with ceil(log2(size)) buckets, one fewer than the code makes
count_sort_short(f, hd, sz) ==
  count_sort_loop([sibling |-> f.sibling, degree |-> f.degree, oob |-> FALSE],
                  [i \in 1..CeilLog2(sz) |-> <<>>], hd)

count_sort(f, hd, sz) ==
  LET max_degree == CeilLog2(sz) + 1
  IN count_sort_loop([sibling |-> f.sibling, degree |-> f.degree, oob |-> FALSE],
                     [i \in 1..max_degree |-> <<>>], hd)

\* consolidate's link loop that links nothing and leaves every bucket as it is
consolidate_link_idle(f, count, i) == [f EXCEPT !.count = count]

\* merge that leaves other's head where it was
merge_head_kept(a, b) ==
  [head EXCEPT ![a] = IF head[a] = Null THEN head[b] ELSE head[a]]

\* consolidate, lines 479-495: link the trees of bucket i two by two, taken
\* from the back, and carry each result into bucket i + 1
RECURSIVE consolidate_link(_, _, _)
consolidate_link(f, count, i) ==
  IF i > Len(count) THEN [f EXCEPT !.count = count]
  ELSE IF Len(count[i]) <= 1 THEN consolidate_link(f, count, i + 1)
  ELSE LET n     == Len(count[i])
           tree1 == count[i][n]
           tree2 == count[i][n - 1]
           l     == link(f, tree1, tree2)
           g     == [f EXCEPT !.sibling = l.sibling, !.child = l.child,
                              !.degree = l.degree, !.links = f.links + 1,
                              !.uneven = f.uneven \/ f.degree[tree1] # f.degree[tree2]]
           rest  == [count EXCEPT ![i] = SubSeq(count[i], 1, n - 2)]
       IN IF i + 1 \in DOMAIN count
          THEN consolidate_link(g, [rest EXCEPT ![i + 1] = Append(rest[i + 1], l.root)], i)
          ELSE consolidate_link([g EXCEPT !.oob = TRUE], rest, i)

\* consolidate, lines 497-515: chain the front tree of every non-empty bucket
RECURSIVE consolidate_rebuild(_, _, _)
consolidate_rebuild(f, count, i) ==
  IF i > Len(count) THEN f
  ELSE IF count[i] = <<>> THEN consolidate_rebuild(f, count, i + 1)
  ELSE LET tree == count[i][1]
       IN consolidate_rebuild(
            [f EXCEPT !.head = IF f.head = Null THEN tree ELSE f.head,
                      !.sibling = IF f.head = Null THEN f.sibling
                                  ELSE [f.sibling EXCEPT ![f.tail] = tree],
                      !.tail = tree],
            count, i + 1)

\* consolidate that returns at once and leaves the root list as it is
consolidate_skipped(f, sz) ==
  f @@ [links |-> 0, uneven |-> FALSE, oob |-> FALSE, roots |-> 0, count |-> <<>>]

\* consolidate: f holds sibling, child, degree, head, tail; sz is the heap's size
consolidate(f, sz) ==
  LET none == [links |-> 0, uneven |-> FALSE, oob |-> FALSE, roots |-> 0, count |-> <<>>]
  IN IF f.head = Null THEN f @@ none
     ELSE LET cs == count_sort(f, f.head, sz)
              lk == consolidate_link(
                      [sibling |-> cs.sibling, child |-> f.child, degree |-> f.degree,
                       links |-> 0, uneven |-> FALSE, oob |-> cs.oob,
                       roots |-> Len(Chain(f.sibling, f.head)), count |-> <<>>],
                      cs.count, 1)
          IN consolidate_rebuild(lk @@ [head |-> Null, tail |-> Null], lk.count, 1)

\* extract_min, lines 188-210: the children of the removed root go to the end
\* of the root list
append_children(r) ==
  LET first_child == child[r.min_node]
  IN IF first_child = Null
     THEN [sibling |-> r.sibling, head |-> r.head, tail |-> r.tail]
     ELSE [sibling |-> IF r.head = Null THEN r.sibling
                       ELSE [r.sibling EXCEPT ![r.tail] = first_child],
           head    |-> IF r.head = Null THEN first_child ELSE r.head,
           tail    |-> LastOf(r.sibling, first_child)]

\* a call: the method, the heap it was called on, the other heap of a merge,
\* the result, and the size every heap had when the call was made
Call(op, h, o, val) == [op |-> op, h |-> h, o |-> o, val |-> val, was |-> size]

\* LazyBinomialHeap::insert
insert(h, k) ==
  /\ nalloc < Cardinality(Nodes)
  /\ LET node == nalloc + 1
     IN /\ nalloc' = node
        /\ alive' = alive \cup {node}
        /\ key' = [key EXCEPT ![node] = k]
        /\ degree' = [degree EXCEPT ![node] = 0]
        /\ child' = [child EXCEPT ![node] = Null]
        /\ size' = [size EXCEPT ![h] = size[h] + 1]
        /\ tail' = [tail EXCEPT ![h] = node]
        /\ IF size[h] + 1 = 1
           THEN /\ head' = [head EXCEPT ![h] = node]
                /\ min' = [min EXCEPT ![h] = node]
                /\ sibling' = [sibling EXCEPT ![node] = Null]
                /\ ub' = ub
           ELSE /\ head' = head
                /\ sibling' = [sibling EXCEPT ![node] = Null, ![tail[h]] = node]
                /\ \E mk \in ReadKey(min[h]) :
                     min' = [min EXCEPT ![h] = IF k < mk THEN node ELSE min[h]]
                /\ ub' = (ub \/ min[h] \notin alive)
        /\ ret' = Call("insert", h, Null, Absent)

\* LazyBinomialHeap::minimum: the results the call may give
minimum_result(h) == IF min[h] = Null THEN {Absent} ELSE ReadKey(min[h])

minimum(h) ==
  /\ \E v \in minimum_result(h) : ret' = Call("minimum", h, Null, v)
  /\ ub' = (ub \/ (min[h] # Null /\ min[h] \notin alive))
  /\ UNCHANGED <<key, degree, sibling, child, alive, nalloc, min, head, tail, size>>

\* LazyBinomialHeap::extract_min
extract_min(h) ==
  \E r \in {remove_min(h)} :
    IF r.min_node = Null
    THEN /\ ret' = Call("extract_min", h, Null, Absent)
         /\ UNCHANGED <<key, degree, sibling, child, alive, nalloc, min, head, tail, size, ub>>
    ELSE \E a \in {append_children(r)} :
         \E c \in {consolidate([sibling |-> a.sibling, child |-> child, degree |-> degree,
                                head |-> a.head, tail |-> a.tail], r.size)} :
            /\ sibling' = [c.sibling EXCEPT ![r.min_node] = Null]
            /\ child' = [c.child EXCEPT ![r.min_node] = Null]
            /\ degree' = [c.degree EXCEPT ![r.min_node] = 0]
            /\ key' = [key EXCEPT ![r.min_node] = Null]
            /\ head' = [head EXCEPT ![h] = c.head]
            /\ tail' = [tail EXCEPT ![h] = c.tail]
            /\ size' = [size EXCEPT ![h] = r.size]
            /\ min' = [min EXCEPT ![h] = update_min(c.sibling, c.head)]
            /\ alive' = alive \ {r.min_node}
            /\ ub' = (ub \/ c.oob)
            /\ ret' = Call("extract_min", h, Null, key[r.min_node])
            /\ UNCHANGED nalloc

\* extract_min, lines 182-212, on a heap h that is not empty: what consolidate
\* does in the call (the links it makes, whether it linked roots of unequal
\* degree, whether it left the bucket vector) and the root list it builds
consolidation(h) ==
  LET r == remove_min(h)
      a == append_children(r)
  IN consolidate([sibling |-> a.sibling, child |-> child, degree |-> degree,
                  head |-> a.head, tail |-> a.tail], r.size)

\* merge, lines 245-248: the values min may take (several when a freed node is read)
merge_min(a, b) ==
  IF min[a] = Null THEN {min[b]}
  ELSE IF min[b] = Null THEN {min[a]}
  ELSE {IF bk < ak THEN min[b] ELSE min[a] : bk \in ReadKey(min[b]), ak \in ReadKey(min[a])}

\* merge that forgets to chain other's root list behind this heap's tail
merge_sibling_unchained(a, b) == sibling

\* merge, lines 250-259: other's root list goes behind this heap's tail
merge_sibling(a, b) ==
  IF head[a] # Null /\ head[b] # Null
  THEN [sibling EXCEPT ![tail[a]] = head[b]]
  ELSE sibling

\* merge, lines 250-259 and 263-264: head and tail of both heaps
merge_head(a, b) ==
  [head EXCEPT ![a] = IF head[a] = Null THEN head[b] ELSE head[a], ![b] = Null]

\* merge that takes over other's tail even when other has no root
merge_tail_always(a, b) == [tail EXCEPT ![a] = tail[b], ![b] = Null]

merge_tail(a, b) ==
  [tail EXCEPT ![a] = IF head[a] = Null \/ head[b] # Null THEN tail[b] ELSE tail[a],
               ![b] = Null]

\* merge that leaves this heap's size as it was
merge_size_not_added(a, b) == [size EXCEPT ![b] = 0]

\* merge that leaves other's size as it was
merge_size_kept(a, b) == [size EXCEPT ![a] = size[a] + size[b]]

\* merge, lines 261 and 265
merge_size(a, b) == [size EXCEPT ![a] = size[a] + size[b], ![b] = 0]

\* LazyBinomialHeap::merge, this = a, other = b
merge(a, b) ==
  /\ a # b
  /\ \E m \in merge_min(a, b) : min' = [min EXCEPT ![a] = m]
  /\ ub' = (ub \/ (min[a] # Null /\ min[b] # Null /\ ~({min[a], min[b]} \subseteq alive)))
  /\ sibling' = merge_sibling(a, b)
  /\ head' = merge_head(a, b)
  /\ tail' = merge_tail(a, b)
  /\ size' = merge_size(a, b)
  /\ ret' = Call("merge", a, b, Absent)
  /\ UNCHANGED <<key, degree, child, alive, nalloc>>

\* LazyBinomialHeap(): every heap starts as make_heap leaves it, no node exists
LazyInit ==
  /\ key = [n \in Nodes |-> Null]
  /\ degree = [n \in Nodes |-> 0]
  /\ sibling = [n \in Nodes |-> Null]
  /\ child = [n \in Nodes |-> Null]
  /\ alive = {}
  /\ nalloc = 0
  /\ min = [h \in Heaps |-> Null]
  /\ head = [h \in Heaps |-> Null]
  /\ tail = [h \in Heaps |-> Null]
  /\ size = [h \in Heaps |-> 0]
  /\ ret = Call("make_heap", Null, Null, Absent)
  /\ ub = FALSE

\* ------------------------------------------------- UnsortedLinkedHeap
\* UnsortedLinkedHeap::update_min
RECURSIVE u_update_min_scan(_, _, _)
u_update_min_scan(nx, current, m) ==
  IF current = Null THEN m
  ELSE u_update_min_scan(nx, nx[current], IF u_key[current] < u_key[m] THEN current ELSE m)

u_update_min_head(nx, hd) == hd

u_update_min(nx, hd) == IF hd = Null THEN Null ELSE u_update_min_scan(nx, nx[hd], hd)

\* a call on the unsorted backend: the method, the heap it was called on, the
\* other heap of a merge, the result, and the number of nodes every list had
\* when the call was made
u_Call(op, h, o, val) ==
  [op |-> op, h |-> h, o |-> o, val |-> val,
   was |-> [g \in Heaps |-> Len(Chain(u_next, u_head[g]))]]

\* UnsortedLinkedHeap::insert
u_insert(h, k) ==
  /\ u_nalloc < Cardinality(Nodes)
  /\ LET node == u_nalloc + 1
     IN /\ u_nalloc' = node
        /\ u_alive' = u_alive \cup {node}
        /\ u_key' = [u_key EXCEPT ![node] = k]
        /\ IF u_head[h] = Null
           THEN /\ u_head' = [u_head EXCEPT ![h] = node]
                /\ u_next' = [u_next EXCEPT ![node] = Null]
                /\ u_prev' = [u_prev EXCEPT ![node] = Null]
           ELSE /\ u_head' = u_head
                /\ u_next' = [u_next EXCEPT ![node] = Null, ![u_tail[h]] = node]
                /\ u_prev' = [u_prev EXCEPT ![node] = u_tail[h]]
        /\ u_tail' = [u_tail EXCEPT ![h] = node]
        /\ u_min' = [u_min EXCEPT ![h] =
                       IF u_min[h] = Null \/ k < u_key[u_min[h]] THEN node ELSE u_min[h]]
        /\ u_ret' = u_Call("insert", h, Null, Absent)

\* UnsortedLinkedHeap::minimum
u_minimum(h) ==
  /\ u_ret' = u_Call("minimum", h, Null, IF u_min[h] = Null THEN Absent ELSE u_key[u_min[h]])
  /\ UNCHANGED <<u_key, u_next, u_prev, u_alive, u_nalloc, u_head, u_tail, u_min>>

\* UnsortedLinkedHeap::extract_min
u_extract_min(h) ==
  IF u_min[h] = Null
  THEN /\ u_ret' = u_Call("extract_min", h, Null, Absent)
       /\ UNCHANGED <<u_key, u_next, u_prev, u_alive, u_nalloc, u_head, u_tail, u_min>>
  ELSE LET m    == u_min[h]
           next == u_next[m]
           prev == u_prev[m]
           nx1  == IF prev # Null THEN [u_next EXCEPT ![prev] = next] ELSE u_next
           pv1  == IF next # Null THEN [u_prev EXCEPT ![next] = prev] ELSE u_prev
           hd   == IF m = u_head[h] THEN next ELSE u_head[h]
           tl   == IF m = u_tail[h] THEN prev ELSE u_tail[h]
           nx2  == [nx1 EXCEPT ![m] = Null]
       IN /\ u_next' = nx2
          /\ u_prev' = [pv1 EXCEPT ![m] = Null]
          /\ u_key' = [u_key EXCEPT ![m] = Null]
          /\ u_alive' = u_alive \ {m}
          /\ u_head' = [u_head EXCEPT ![h] = hd]
          /\ u_tail' = [u_tail EXCEPT ![h] = tl]
          /\ u_min' = [u_min EXCEPT ![h] = u_update_min(nx2, hd)]
          /\ u_ret' = u_Call("extract_min", h, Null, u_key[m])
          /\ UNCHANGED u_nalloc

\* merge that chains other's list behind this list by next only and leaves
\* the prev of other's head as it was
u_merge_no_prev(a, b) ==
  /\ a # b
  /\ u_ret' = u_Call("merge", a, b, Absent)
  /\ IF u_head[b] = Null
     THEN UNCHANGED <<u_key, u_next, u_prev, u_alive, u_nalloc, u_head, u_tail, u_min>>
     ELSE /\ IF u_head[a] = Null
             THEN /\ u_head' = [u_head EXCEPT ![a] = u_head[b], ![b] = Null]
                  /\ u_min' = [u_min EXCEPT ![a] = u_min[b], ![b] = Null]
                  /\ UNCHANGED <<u_next, u_prev>>
             ELSE /\ u_next' = [u_next EXCEPT ![u_tail[a]] = u_head[b]]
                  /\ u_prev' = u_prev
                  /\ u_head' = [u_head EXCEPT ![b] = Null]
                  /\ u_min' = [u_min EXCEPT
                                 ![a] = IF u_key[u_min[b]] < u_key[u_min[a]]
                                        THEN u_min[b] ELSE u_min[a],
                                 ![b] = Null]
          /\ u_tail' = [u_tail EXCEPT ![a] = u_tail[b], ![b] = Null]
          /\ UNCHANGED <<u_key, u_alive, u_nalloc>>

\* UnsortedLinkedHeap::merge, this = a, other = b
u_merge(a, b) ==
  /\ a # b
  /\ u_ret' = u_Call("merge", a, b, Absent)
  /\ IF u_head[b] = Null
     THEN UNCHANGED <<u_key, u_next, u_prev, u_alive, u_nalloc, u_head, u_tail, u_min>>
     ELSE /\ IF u_head[a] = Null
             THEN /\ u_head' = [u_head EXCEPT ![a] = u_head[b], ![b] = Null]
                  /\ u_min' = [u_min EXCEPT ![a] = u_min[b], ![b] = Null]
                  /\ UNCHANGED <<u_next, u_prev>>
             ELSE /\ u_next' = [u_next EXCEPT ![u_tail[a]] = u_head[b]]
                  /\ u_prev' = [u_prev EXCEPT ![u_head[b]] = u_tail[a]]
                  /\ u_head' = [u_head EXCEPT ![b] = Null]
                  /\ u_min' = [u_min EXCEPT
                                 ![a] = IF u_key[u_min[b]] < u_key[u_min[a]]
                                        THEN u_min[b] ELSE u_min[a],
                                 ![b] = Null]
          /\ u_tail' = [u_tail EXCEPT ![a] = u_tail[b], ![b] = Null]
          /\ UNCHANGED <<u_key, u_alive, u_nalloc>>

\* UnsortedLinkedHeap()
UnsortedInit ==
  /\ u_key = [n \in Nodes |-> Null]
  /\ u_next = [n \in Nodes |-> Null]
  /\ u_prev = [n \in Nodes |-> Null]
  /\ u_alive = {}
  /\ u_nalloc = 0
  /\ u_head = [h \in Heaps |-> Null]
  /\ u_tail = [h \in Heaps |-> Null]
  /\ u_min = [h \in Heaps |-> Null]
  /\ u_ret = u_Call("make_heap", Null, Null, Absent)

\* --------------------------------------------------- SortedLinkedHeap
\* the comparison that decides whether this heap's node stays in front
s_stays_in_front_always(k, other_k) == TRUE

s_stays_in_front(k, other_k) == k < other_k

\* SortedLinkedHeap::merge, lines 184-209: f holds key, next, prev and head
RECURSIVE s_merge_loop(_, _, _, _)
s_merge_loop(f, current, other_current, prev) ==
  IF current = Null \/ other_current = Null
  THEN [next |-> f.next, prev |-> f.prev, head |-> f.head,
        current |-> current, other_current |-> other_current, last |-> prev]
  ELSE IF s_stays_in_front(f.key[current], f.key[other_current])
  THEN s_merge_loop(f, f.next[current], other_current, current)
  ELSE LET next_other_current == f.next[other_current]
           nx == IF prev = Null THEN f.next ELSE [f.next EXCEPT ![prev] = other_current]
       IN s_merge_loop([f EXCEPT !.head = IF prev = Null THEN other_current ELSE f.head,
                                 !.next = [nx EXCEPT ![other_current] = current],
                                 !.prev = [f.prev EXCEPT ![other_current] = prev]],
                       current, next_other_current, other_current)

\* SortedLinkedHeap::merge on the lists that start at hd (this) and ohd (other);
\* f holds key, next and prev
s_merge_lists(f, hd, ohd) ==
  IF hd = Null
  THEN [next |-> f.next, prev |-> f.prev, head |-> ohd, other_head |-> hd]
  ELSE IF ohd = Null
  THEN [next |-> f.next, prev |-> f.prev, head |-> hd, other_head |-> ohd]
  ELSE LET l == s_merge_loop([key |-> f.key, next |-> f.next, prev |-> f.prev, head |-> hd],
                             hd, ohd, Null)
       IN IF l.current = Null
          THEN [next |-> [l.next EXCEPT ![l.last] = l.other_current],
                prev |-> IF l.other_current # Null
                         THEN [l.prev EXCEPT ![l.other_current] = l.last]
                         ELSE l.prev,
                head |-> l.head, other_head |-> Null]
          ELSE [next |-> l.next, prev |-> l.prev, head |-> l.head, other_head |-> Null]

\* the keys on the list that starts at n, at most fuel of them
RECURSIVE s_keys(_, _, _, _)
s_keys(ky, nx, n, fuel) ==
  IF n = Null \/ fuel = 0 THEN <<>> ELSE <<ky[n]>> \o s_keys(ky, nx, nx[n], fuel - 1)

\* a call: the method, the heap, the other heap of a merge, the result, and
\* the keys every heap held, in list order, when the call was made
s_Call(op, h, o, val) ==
  [op |-> op, h |-> h, o |-> o, val |-> val,
   was |-> [g \in Heaps |-> s_keys(s_key, s_next, s_head[g], Cardinality(Nodes))]]

\* SortedLinkedHeap::insert: a one-node heap temp is merged into this heap
s_insert(h, k) ==
  /\ s_nalloc < Cardinality(Nodes)
  /\ LET node == s_nalloc + 1
         ky   == [s_key EXCEPT ![node] = k]
         m    == s_merge_lists([key |-> ky,
                                next |-> [s_next EXCEPT ![node] = Null],
                                prev |-> [s_prev EXCEPT ![node] = Null]],
                               s_head[h], node)
     IN /\ s_nalloc' = node
        /\ s_alive' = s_alive \cup {node}
        /\ s_key' = ky
        /\ s_next' = m.next
        /\ s_prev' = m.prev
        /\ s_head' = [s_head EXCEPT ![h] = m.head]
        /\ s_ret' = s_Call("insert", h, Null, Absent)

\* SortedLinkedHeap::minimum
s_minimum(h) ==
  /\ s_ret' = s_Call("minimum", h, Null,
                     IF s_head[h] = Null THEN Absent ELSE s_key[s_head[h]])
  /\ UNCHANGED <<s_key, s_next, s_prev, s_alive, s_nalloc, s_head>>

\* SortedLinkedHeap::extract_min
s_extract_min(h) ==
  IF s_head[h] = Null
  THEN /\ s_ret' = s_Call("extract_min", h, Null, Absent)
       /\ UNCHANGED <<s_key, s_next, s_prev, s_alive, s_nalloc, s_head>>
  ELSE LET min_node == s_head[h]
           hd       == s_next[min_node]
       IN /\ s_head' = [s_head EXCEPT ![h] = hd]
          /\ s_prev' = IF hd # Null
                       THEN [s_prev EXCEPT ![hd] = Null, ![min_node] = Null]
                       ELSE [s_prev EXCEPT ![min_node] = Null]
          /\ s_next' = [s_next EXCEPT ![min_node] = Null]
          /\ s_key' = [s_key EXCEPT ![min_node] = Null]
          /\ s_alive' = s_alive \ {min_node}
          /\ s_ret' = s_Call("extract_min", h, Null, s_key[min_node])
          /\ UNCHANGED s_nalloc

\* SortedLinkedHeap::merge, this = a, other = b
s_merge(a, b) ==
  /\ a # b
  /\ LET m == s_merge_lists([key |-> s_key, next |-> s_next, prev |-> s_prev],
                            s_head[a], s_head[b])
     IN /\ s_next' = m.next
        /\ s_prev' = m.prev
        /\ s_head' = [s_head EXCEPT ![a] = m.head, ![b] = m.other_head]
  /\ s_ret' = s_Call("merge", a, b, Absent)
  /\ UNCHANGED <<s_key, s_alive, s_nalloc>>

\* SortedLinkedHeap()
SortedInit ==
  /\ s_key = [n \in Nodes |-> Null]
  /\ s_next = [n \in Nodes |-> Null]
  /\ s_prev = [n \in Nodes |-> Null]
  /\ s_alive = {}
  /\ s_nalloc = 0
  /\ s_head = [h \in Heaps |-> Null]
  /\ s_ret = [op |-> "make_heap", h |-> Null, o |-> Null, val |-> Absent,
              was |-> [g \in Heaps |-> <<>>]]

vars == <<lazyVars, scriptVars, unsVars, srtVars>>

\* no consolidate call is under way
no_consolidate ==
  [h |-> Null, i |-> 0, links |-> 0, roots |-> 0, oob |-> FALSE,
   count |-> <<>>, sibling |-> [n \in Nodes |-> Null],
   child |-> [n \in Nodes |-> Null], degree |-> [n \in Nodes |-> 0]]

ScriptInit ==
  /\ pc = "idle"
  /\ inserted = <<>>
  /\ extracted = <<>>
  /\ kind = "none"
  /\ sources = {}
  /\ cons = no_consolidate
  /\ freed = [n \in Nodes |-> 0]
  /\ torn = {}

Init == LazyInit /\ ScriptInit /\ UnsortedInit /\ SortedInit

\* ------------------------------------------------ general specification
\* any interleaving of the four public methods on NumHeaps lazy heaps
InsertStep ==
  \E h \in 1..NumHeaps, k \in Keys :
    nalloc < MaxNodes /\ insert(h, k) /\ UNCHANGED <<scriptVars, unsVars, srtVars>>

MinimumStep == \E h \in 1..NumHeaps : minimum(h) /\ UNCHANGED <<scriptVars, unsVars, srtVars>>

ExtractStep == \E h \in 1..NumHeaps : extract_min(h) /\ UNCHANGED <<scriptVars, unsVars, srtVars>>

MergeStep ==
  \E a \in 1..NumHeaps, b \in 1..NumHeaps : merge(a, b) /\ UNCHANGED <<scriptVars, unsVars, srtVars>>

Next == InsertStep \/ MinimumStep \/ ExtractStep \/ MergeStep

Spec == Init /\ [][Next]_vars

\* --------------------------------------------------- three lazy heaps
\* the same four methods on WideHeaps heaps holding few nodes: a reference
\* left in a merged-away heap can then point into a third heap
WideInsert ==
  \E h \in 1..WideHeaps, k \in Keys :
    nalloc < WideNodes /\ insert(h, k) /\ UNCHANGED <<scriptVars, unsVars, srtVars>>

WideMinimum == \E h \in 1..WideHeaps : minimum(h) /\ UNCHANGED <<scriptVars, unsVars, srtVars>>

WideExtract == \E h \in 1..WideHeaps : extract_min(h) /\ UNCHANGED <<scriptVars, unsVars, srtVars>>

WideMerge ==
  \E a \in 1..WideHeaps, b \in 1..WideHeaps : merge(a, b) /\ UNCHANGED <<scriptVars, unsVars, srtVars>>

WideNext == WideInsert \/ WideMinimum \/ WideExtract \/ WideMerge

WideSpec == Init /\ [][WideNext]_vars

\* ------------------------------------------------------ what a heap holds
\* the nodes heap h owns: those reached from head by sibling and child links
RECURSIVE Closure(_)
Closure(S) ==
  LET T == S \cup (({sibling[n] : n \in S} \cup {child[n] : n \in S}) \ {Null})
  IN IF T = S THEN S ELSE Closure(T)

Owned(h) == Closure({head[h]} \ {Null})

\* how often heap h holds each key
KeyCount(h) == [k \in Keys |-> Cardinality({n \in Owned(h) : key[n] = k})]

\* the keys heap h holds, one entry per node, in node order
RECURSIVE KeysFrom(_, _)
KeysFrom(S, n) ==
  IF n > Cardinality(Nodes) THEN <<>>
  ELSE (IF n \in S THEN <<key[n]>> ELSE <<>>) \o KeysFrom(S, n + 1)

KeyList(h) == KeysFrom(Owned(h), 1)

\* a sequence of keys put in non-decreasing order
RECURSIVE PutInOrder(_, _)
PutInOrder(s, k) ==
  IF s = <<>> THEN <<k>>
  ELSE IF k <= Head(s) THEN <<k>> \o s
  ELSE <<Head(s)>> \o PutInOrder(Tail(s), k)

RECURSIVE Ascending(_)
Ascending(s) == IF s = <<>> THEN <<>> ELSE PutInOrder(Ascending(Tail(s)), Head(s))

\* the results of draining a heap that held the keys of `held`: the keys in
\* non-decreasing order, then absent, and `got` is a prefix of that
DrainedInOrder(held, got) ==
  /\ Len(got) <= Len(held) + 1
  /\ \A i \in 1..Len(got) :
       got[i] = IF i <= Len(held) THEN Ascending(held)[i] ELSE Absent

\* ------------------------------------------------- fill, then drain
\* heap `this` receives up to MaxFill keys by insert and is then drained by
\* extract_min until the first absent result
this == 1
other == 2

Fill ==
  /\ pc \in {"idle", "fill"}
  /\ Len(inserted) < MaxFill
  /\ \E k \in Keys : insert(this, k) /\ inserted' = Append(inserted, k)
  /\ pc' = "fill"
  /\ UNCHANGED <<extracted, kind, unsVars, srtVars, sources, cons, freed, torn>>

DrainStep ==
  /\ extract_min(this)
  /\ extracted' = Append(extracted, ret'.val)
  /\ pc' = IF ret'.val = Absent THEN "drained" ELSE "drain"
  /\ UNCHANGED <<inserted, kind, unsVars, srtVars, sources, cons, freed, torn>>

Drain == pc \in {"idle", "fill", "drain"} /\ DrainStep

DrainNext == Fill \/ Drain

DrainSpec == Init /\ [][DrainNext]_vars

\* ------------------------------------- fill two heaps, merge, then drain
\* `this` and `other` are filled by insert and partly drained by extract_min
\* in any order, then other is merged into this and this is drained; the keys
\* both heaps held when merge was called are kept in `inserted`
FillBoth ==
  /\ pc \in {"idle", "fill"}
  /\ nalloc < MergeFill
  /\ \E h \in {this, other}, k \in Keys : insert(h, k)
  /\ pc' = "fill"
  /\ UNCHANGED <<inserted, extracted, kind, unsVars, srtVars, sources, cons, freed, torn>>

PartDrain ==
  /\ pc = "fill"
  /\ \E h \in {this, other} : extract_min(h)
  /\ UNCHANGED <<scriptVars, unsVars, srtVars>>

MergeBoth ==
  /\ pc \in {"idle", "fill"}
  /\ merge(this, other)
  /\ inserted' = KeyList(this) \o KeyList(other)
  /\ pc' = "merged"
  /\ UNCHANGED <<extracted, kind, unsVars, srtVars, sources, cons, freed, torn>>

DrainMerged == pc \in {"merged", "drain"} /\ DrainStep

MergeDrainNext == FillBoth \/ PartDrain \/ MergeBoth \/ DrainMerged

MergeDrainSpec == Init /\ [][MergeDrainNext]_vars

\* --------------------------------------- the three backends side by side
\* every call is made on the lazy, the unsorted and the sorted heap of the
\* same number, with the same arguments
EquivInsert ==
  \E h \in 1..EquivHeaps, k \in Keys :
    /\ nalloc < EquivNodes
    /\ insert(h, k) /\ u_insert(h, k) /\ s_insert(h, k)
    /\ UNCHANGED scriptVars

EquivMinimum ==
  \E h \in 1..EquivHeaps :
    minimum(h) /\ u_minimum(h) /\ s_minimum(h) /\ UNCHANGED scriptVars

EquivExtract ==
  \E h \in 1..EquivHeaps :
    extract_min(h) /\ u_extract_min(h) /\ s_extract_min(h) /\ UNCHANGED scriptVars

EquivMerge ==
  \E a \in 1..EquivHeaps, b \in 1..EquivHeaps :
    merge(a, b) /\ u_merge(a, b) /\ s_merge(a, b) /\ UNCHANGED scriptVars

EquivNext == EquivInsert \/ EquivMinimum \/ EquivExtract \/ EquivMerge

EquivSpec == Init /\ [][EquivNext]_vars

\* ------------------------------------------------- sorted linked heaps
\* any interleaving of the four public methods on SortedHeaps sorted heaps
SortedInsert ==
  \E h \in 1..SortedHeaps, k \in Keys :
    s_nalloc < SortedNodes /\ s_insert(h, k) /\ UNCHANGED <<lazyVars, scriptVars, unsVars>>

SortedMinimum ==
  \E h \in 1..SortedHeaps : s_minimum(h) /\ UNCHANGED <<lazyVars, scriptVars, unsVars>>

SortedExtract ==
  \E h \in 1..SortedHeaps : s_extract_min(h) /\ UNCHANGED <<lazyVars, scriptVars, unsVars>>

SortedMerge ==
  \E a \in 1..SortedHeaps, b \in 1..SortedHeaps :
    s_merge(a, b) /\ UNCHANGED <<lazyVars, scriptVars, unsVars>>

SortedNext == SortedInsert \/ SortedMinimum \/ SortedExtract \/ SortedMerge

SortedSpec == Init /\ [][SortedNext]_vars

\* ------------------------------------------------ sort through the interface
\* the concrete kinds of MergeableHeap
Kinds == {"lazy", "unsorted", "sorted"}

\* MergeableHeap::insert, dispatched on the concrete kind
h_insert(kd, h, k) ==
  CASE kd = "lazy" -> insert(h, k) /\ UNCHANGED <<unsVars, srtVars>>
    [] kd = "unsorted" -> u_insert(h, k) /\ UNCHANGED <<lazyVars, srtVars>>
    [] kd = "sorted" -> s_insert(h, k) /\ UNCHANGED <<lazyVars, unsVars>>

\* MergeableHeap::extract_min, dispatched on the concrete kind
h_extract_min(kd, h) ==
  CASE kd = "lazy" -> extract_min(h) /\ UNCHANGED <<unsVars, srtVars>>
    [] kd = "unsorted" -> u_extract_min(h) /\ UNCHANGED <<lazyVars, srtVars>>
    [] kd = "sorted" -> s_extract_min(h) /\ UNCHANGED <<lazyVars, unsVars>>

\* MergeableHeap::merge, dispatched on the concrete kind
h_merge(kd, a, b) ==
  CASE kd = "lazy" -> merge(a, b) /\ UNCHANGED <<unsVars, srtVars>>
    [] kd = "unsorted" -> u_merge(a, b) /\ UNCHANGED <<lazyVars, srtVars>>
    [] kd = "sorted" -> s_merge(a, b) /\ UNCHANGED <<lazyVars, unsVars>>

\* what the last call on a heap of kind kd returned
h_ret(kd, r, ur, sr) ==
  CASE kd = "lazy" -> r.val [] kd = "unsorted" -> ur.val [] kd = "sorted" -> sr.val

\* the number of nodes allocated so far for heaps of kind kd
h_nalloc(kd) ==
  CASE kd = "lazy" -> nalloc [] kd = "unsorted" -> u_nalloc [] kd = "sorted" -> s_nalloc

\* the keys heap h of kind kd holds
h_keys(kd, h) ==
  CASE kd = "lazy" -> KeyList(h)
    [] kd = "unsorted" -> s_keys(u_key, u_next, u_head[h], Cardinality(Nodes))
    [] kd = "sorted" -> s_keys(s_key, s_next, s_head[h], Cardinality(Nodes))
    [] OTHER -> <<>>

\* heap h of kind kd has no node and, where it counts its nodes, counts none
h_empty(kd, h) ==
  CASE kd = "lazy" -> head[h] = Null /\ tail[h] = Null /\ size[h] = 0
    [] kd = "unsorted" -> u_head[h] = Null /\ u_tail[h] = Null /\ u_min[h] = Null
    [] kd = "sorted" -> s_head[h] = Null
    [] OTHER -> TRUE

\* heap `this` of some kind is built by insert and extract_min
SortPrepareInsert ==
  /\ pc \in {"idle", "fill"}
  /\ \E kd \in (IF pc = "idle" THEN Kinds ELSE {kind}), k \in Keys :
       /\ h_nalloc(kd) < SortFill
       /\ h_insert(kd, this, k)
       /\ kind' = kd
  /\ pc' = "fill"
  /\ UNCHANGED <<inserted, extracted, sources, cons, freed, torn>>

SortPrepareExtract ==
  /\ pc = "fill"
  /\ h_extract_min(kind, this)
  /\ UNCHANGED scriptVars

\* sort() is called on `this`; the temporary heap `other` starts empty, and
\* the keys `this` holds at the call are kept in `inserted`
SortCall ==
  /\ pc \in {"idle", "fill"}
  /\ \E kd \in (IF pc = "idle" THEN Kinds ELSE {kind}) :
       /\ kind' = kd
       /\ inserted' = h_keys(kd, this)
  /\ pc' = "sort"
  /\ UNCHANGED <<lazyVars, unsVars, srtVars, extracted, sources, cons, freed, torn>>

\* MergeableHeap::sort: while (auto key = extract_min())
SortExtract ==
  /\ pc = "sort"
  /\ \E kd \in {kind} :
       /\ h_extract_min(kd, this)
       /\ pc' = IF h_ret(kd, ret', u_ret', s_ret') = Absent THEN "merge" ELSE "insert"
  /\ UNCHANGED <<inserted, extracted, kind, sources, cons, freed, torn>>

\* MergeableHeap::sort: temp.insert(std::move(*key)); the keys handed to
\* temp are kept in `extracted`
SortInsert ==
  /\ pc = "insert"
  /\ \E kd \in {kind} :
       /\ h_insert(kd, other, h_ret(kd, ret, u_ret, s_ret))
       /\ extracted' = Append(extracted, h_ret(kd, ret, u_ret, s_ret))
  /\ pc' = "sort"
  /\ UNCHANGED <<inserted, kind, sources, cons, freed, torn>>

\* MergeableHeap::sort: merge(temp)
SortMerge ==
  /\ pc = "merge"
  /\ h_merge(kind, this, other)
  /\ pc' = "sorted"
  /\ UNCHANGED <<inserted, extracted, kind, sources, cons, freed, torn>>

SortRun == SortExtract \/ SortInsert \/ SortMerge

SortNext == SortPrepareInsert \/ SortPrepareExtract \/ SortCall \/ SortRun

\* a call of sort() runs on until it returns
SortSpec == Init /\ [][SortNext]_vars /\ WF_vars(SortRun)

\* ------------------------------------------------- the forest of trees
\* any interleaving of insert, extract_min and merge on ForestHeaps lazy heaps
ForestInsert ==
  \E h \in 1..ForestHeaps, k \in 1..ForestKeys :
    nalloc < ForestNodes /\ insert(h, k) /\ UNCHANGED <<scriptVars, unsVars, srtVars>>

ForestExtract ==
  \E h \in 1..ForestHeaps : extract_min(h) /\ UNCHANGED <<scriptVars, unsVars, srtVars>>

ForestMerge ==
  \E a \in 1..ForestHeaps, b \in 1..ForestHeaps :
    merge(a, b) /\ UNCHANGED <<scriptVars, unsVars, srtVars>>

ForestNext == ForestInsert \/ ForestExtract \/ ForestMerge

ForestSpec == Init /\ [][ForestNext]_vars

\* ------------------------------------------ heaps that were merged away
\* any interleaving of insert, extract_min and merge on WideHeaps lazy heaps;
\* `sources` keeps the heaps that were the other heap of a merge
SourceInsert ==
  \E h \in 1..WideHeaps, k \in Keys :
    nalloc < WideNodes /\ insert(h, k) /\ UNCHANGED <<scriptVars, unsVars, srtVars>>

SourceExtract ==
  \E h \in 1..WideHeaps : extract_min(h) /\ UNCHANGED <<scriptVars, unsVars, srtVars>>

SourceMerge ==
  \E a \in 1..WideHeaps, b \in 1..WideHeaps :
    /\ merge(a, b)
    /\ sources' = sources \cup {b}
    /\ UNCHANGED <<pc, inserted, extracted, kind, cons, freed, torn, unsVars, srtVars>>

SourceNext == SourceInsert \/ SourceExtract \/ SourceMerge

SourceSpec == Init /\ [][SourceNext]_vars

\* ------------------------------------------------------------- claims
\* C1: every key put into one lazy heap by insert comes back from repeated
\* extract_min exactly once, in non-decreasing order, and absent comes back
\* on the call after the last key and on no earlier call.
C1_DrainReturnsKeysInOrder == DrainedInOrder(inserted, extracted)

C1_Witness ==
  /\ pc = "drained"
  /\ Len(inserted) = MaxFill
  /\ Len(extracted) = MaxFill + 1
  /\ \E i \in 1..(MaxFill - 1) : inserted[i] > inserted[i + 1]
  /\ \E i \in 1..MaxFill, j \in 1..MaxFill : i # j /\ inserted[i] = inserted[j]

\* C4: after merge(a, b) on two distinct lazy heaps a.size is the sum of both
\* sizes as they were before the call and b.size is 0.
C4_MergeAddsSizes ==
  ret.op = "merge" =>
    /\ size[ret.h] = ret.was[ret.h] + ret.was[ret.o]
    /\ size[ret.o] = 0

C4_Witness ==
  /\ ret.op = "merge"
  /\ ret.was[ret.h] >= 1
  /\ ret.was[ret.o] >= 2
  /\ size[ret.h] >= 3

\* C5: on a lazy heap whose element count is zero, minimum() and
\* extract_min() return absent, read no freed node and leave size at zero.
C5_EmptyGivesAbsent ==
  (ret.op \in {"minimum", "extract_min"} /\ ret.was[ret.h] = 0) =>
    /\ ret.val = Absent
    /\ size[ret.h] = 0
    /\ ~ub

\* C6: after merge(a, b) heap b is as make_heap returns it: head, tail and
\* min absent and size 0.
C6_SourceIsReset ==
  ret.op = "merge" =>
    /\ head[ret.o] = Null
    /\ tail[ret.o] = Null
    /\ min[ret.o] = Null
    /\ size[ret.o] = 0


\* C2: on a lazy heap that holds at least one key, minimum() returns a key
\* stored in that heap that is <= every key stored in it, and the call changes
\* no state.
C2_MinimumIsLeast ==
  [][ret'.op = "minimum" =>
       /\ UNCHANGED <<key, degree, sibling, child, alive, nalloc, min, head, tail, size>>
       /\ \A h \in Heaps :
            (ret'.h = h /\ Owned(h) # {}) =>
              /\ \E n \in Owned(h) : key[n] = ret'.val
              /\ \A n \in Owned(h) : ret'.val <= key[n]]_vars

\* C3: after merge(a, b) on two distinct lazy heaps, each possibly partly
\* drained before, a holds the multiset union of the keys both held, and
\* draining a returns all of them in non-decreasing order and then absent.
C3_MergeKeepsAllKeys ==
  pc \in {"merged", "drain", "drained"} =>
    /\ pc = "merged" => Ascending(KeyList(this)) = Ascending(inserted)
    /\ DrainedInOrder(inserted, extracted)
    /\ pc = "drained" => Len(extracted) = Len(inserted) + 1

C3_Witness ==
  /\ pc = "merged"
  /\ ret.was[this] >= 2
  /\ ret.was[other] >= 1
  /\ Cardinality(alive) < nalloc
  /\ \E i \in 1..ret.was[this], j \in (ret.was[this] + 1)..Len(inserted) :
       inserted[i] = inserted[j]

\* C8: merging with an empty heap is an identity: merge(a, empty) leaves a's
\* keys and minimum() unchanged, merge(empty, b) gives a exactly b's keys and
\* b's minimum, and merging two empty heaps leaves a empty with minimum() and
\* extract_min() absent.
C8_MergeWithEmptyIsIdentity ==
  [][\A a \in Heaps, b \in Heaps :
       (ret'.op = "merge" /\ ret'.h = a /\ ret'.o = b) =>
         /\ size[b] = 0 =>
              /\ KeyCount(a)' = KeyCount(a)
              /\ minimum_result(a)' = minimum_result(a)
         /\ size[a] = 0 =>
              /\ KeyCount(a)' = KeyCount(b)
              /\ minimum_result(a)' = minimum_result(b)
         /\ (size[a] = 0 /\ size[b] = 0) =>
              /\ minimum_result(a)' = {Absent}
              /\ head'[a] = Null]_vars

\* C7: the same calls made on an unsorted, a sorted and a lazy heap give the
\* same result from every minimum() and every extract_min().
C7_BackendsAgree ==
  ret.op \in {"minimum", "extract_min"} =>
    /\ u_ret.op = ret.op /\ s_ret.op = ret.op
    /\ ret.val = u_ret.val
    /\ ret.val = s_ret.val

\* a sequence of keys is in non-decreasing order
NonDecreasing(s) == \A i \in 1..Len(s), j \in 1..Len(s) : i < j => s[i] <= s[j]

\* the number of nodes on the lists of sorted heaps 1..h
RECURSIVE s_listed(_)
s_listed(h) ==
  IF h = 0 THEN 0
  ELSE Len(s_keys(s_key, s_next, s_head[h], Cardinality(Nodes))) + s_listed(h - 1)

\* C10: in every sorted linked heap the keys along next from head are in
\* non-decreasing order after every call, every node in use is on one list,
\* minimum() returns the smallest key of its heap, and after merge(a, b) the
\* head of b is absent.
C10_SortedChainInOrder ==
  /\ \A h \in Heaps : NonDecreasing(s_keys(s_key, s_next, s_head[h], Cardinality(Nodes)))
  /\ s_listed(Cardinality(Heaps)) = Cardinality(s_alive)
  /\ (s_ret.op = "minimum" /\ s_ret.was[s_ret.h] # <<>>) =>
       /\ \E i \in 1..Len(s_ret.was[s_ret.h]) : s_ret.was[s_ret.h][i] = s_ret.val
       /\ \A i \in 1..Len(s_ret.was[s_ret.h]) : s_ret.val <= s_ret.was[s_ret.h][i]
  /\ s_ret.op = "merge" => s_head[s_ret.o] = Null

C10_Witness ==
  /\ s_ret.op = "merge"
  /\ Len(s_ret.was[s_ret.h]) = 2
  /\ Len(s_ret.was[s_ret.o]) = 2
  /\ s_ret.was[s_ret.h][1] < s_ret.was[s_ret.h][2]
  /\ s_ret.was[s_ret.o][1] = s_ret.was[s_ret.h][1]
  /\ s_ret.was[s_ret.o][2] = s_ret.was[s_ret.h][2]
  /\ Len(s_keys(s_key, s_next, s_head[s_ret.h], Cardinality(Nodes))) = 4

\* what holds while sort() runs and when it has returned
SortKeepsOrder ==
  /\ pc \in {"sort", "insert", "merge", "sorted"} =>
       /\ NonDecreasing(extracted)
       /\ Len(extracted) <= Len(inserted)
  /\ pc \in {"merge", "sorted"} => extracted = Ascending(inserted)
  /\ pc = "sorted" =>
       /\ Ascending(h_keys(kind, this)) = Ascending(inserted)
       /\ h_keys(kind, other) = <<>>
       /\ h_empty(kind, other)
       /\ ~ub

RECURSIVE Walk(_, _, _)
Walk(sib, n, fuel) ==
  IF n = Null \/ fuel = 0 THEN <<>> ELSE <<n>> \o Walk(sib, sib[n], fuel - 1)

\* the roots of heap h and the children of node n, in list order
Roots(h) == Walk(sibling, head[h], Cardinality(Nodes))

Kids(n) == Walk(sibling, child[n], Cardinality(Nodes))

RECURSIVE Pow2(_)
Pow2(k) == IF k <= 0 THEN 1 ELSE 2 * Pow2(k - 1)

\* the number of nodes of the subtree of n, down to depth levels
RECURSIVE TreeSize(_, _)
RECURSIVE TreeSizes(_, _)
TreeSize(n, depth) == IF depth = 0 THEN 0 ELSE 1 + TreeSizes(Kids(n), depth - 1)

TreeSizes(s, depth) ==
  IF s = <<>> THEN 0 ELSE TreeSize(Head(s), depth) + TreeSizes(Tail(s), depth)

\* C12: every node of degree k has exactly k children, of degrees k-1, ..., 0
\* read from the first child along sibling, and a subtree of exactly 2^k nodes.
C12_TreesAreBinomial ==
  \A n \in alive :
    /\ Len(Kids(n)) = degree[n]
    /\ \A i \in 1..Len(Kids(n)) : degree[Kids(n)[i]] = degree[n] - i
    /\ TreeSize(n, Cardinality(Nodes)) = Pow2(degree[n])

C12_Witness ==
  /\ ret.op = "extract_min"
  /\ \E n \in alive : degree[n] = 2 /\ n = head[ret.h] /\ n = tail[ret.h]
  /\ size[ret.h] = 4

\* C13: the key of every node is <= the key of each of its children, hence of
\* every node of its subtree.
C13_HeapOrder ==
  \A n \in alive : \A i \in 1..Len(Kids(n)) : key[n] <= key[Kids(n)[i]]

C13_Witness ==
  /\ ret.op = "extract_min"
  /\ \E n \in alive :
       /\ degree[n] = 2
       /\ key[Kids(n)[1]] = key[n]
       /\ key[Kids(n)[2]] > key[n]
  /\ Cardinality(alive) < nalloc

\* the degrees of the roots of heap h, from head to tail
RootDegrees(h) == [i \in 1..Len(Roots(h)) |-> degree[Roots(h)[i]]]

\* C14: right after an extract_min that leaves the heap non-empty the degrees
\* of its roots, read from head to tail, are strictly increasing.
C14_RootDegreesIncrease ==
  (ret.op = "extract_min" /\ size[ret.h] > 0) =>
    \A i \in 1..Len(Roots(ret.h)), j \in 1..Len(Roots(ret.h)) :
      i < j => RootDegrees(ret.h)[i] < RootDegrees(ret.h)[j]

C14_Witness ==
  /\ ret.op = "extract_min"
  /\ ret.was[ret.h] = 4
  /\ RootDegrees(ret.h) = <<0, 1>>
  /\ ret.val = key[head[ret.h]]

\* C15: right after an extract_min that leaves n >= 1 keys the root list
\* holds at most ceil(log2(n + 1)) trees.
C15_FewRoots ==
  (ret.op = "extract_min" /\ size[ret.h] >= 1) =>
    Len(Roots(ret.h)) <= CeilLog2(size[ret.h] + 1)

C15_Witness ==
  /\ ret.op = "extract_min"
  /\ size[ret.h] = 3
  /\ Len(Roots(ret.h)) = CeilLog2(size[ret.h] + 1)

\* C16: in every consolidation no bucket is accessed out of range: neither by
\* the degree of a root in count_sort nor by the carry into bucket i + 1.
C16_BucketsInRange ==
  [][\A h \in Heaps :
       (ret'.op = "extract_min" /\ ret'.h = h /\ head[h] # Null) =>
         ~consolidation(h).oob]_vars

C16_Witness ==
  /\ ret.op = "extract_min"
  /\ size[ret.h] = 4
  /\ \E n \in alive : n = head[ret.h] /\ degree[n] = CeilLog2(size[ret.h])
  /\ Len(Roots(ret.h)) = 1

\* C20: consolidate calls link only on two roots whose degree fields are equal.
C20_LinkOnEqualDegrees ==
  [][\A h \in Heaps :
       (ret'.op = "extract_min" /\ ret'.h = h /\ head[h] # Null) =>
         ~consolidation(h).uneven]_vars

C20_Witness ==
  /\ ret.op = "extract_min"
  /\ ret.was[ret.h] = 5
  /\ \E n \in alive : n = head[ret.h] /\ degree[n] = 2 /\ degree[child[n]] = 1

\* C17: size is the number of nodes reached from head by child and sibling
\* links and is never negative; insert raises it by 1, an extract_min that
\* returns a key lowers it by 1, one that returns absent leaves it unchanged.
C17_SizeCountsNodes ==
  /\ [](\A h \in Heaps : size[h] = Cardinality(Owned(h)) /\ size[h] >= 0)
  /\ [][\A h \in Heaps :
          /\ (ret'.op = "insert" /\ ret'.h = h) => size'[h] = size[h] + 1
          /\ (ret'.op = "extract_min" /\ ret'.h = h) =>
               size'[h] = IF ret'.val = Absent THEN size[h] ELSE size[h] - 1]_vars

C17_Witness ==
  /\ ret.op = "extract_min"
  /\ ret.val = Absent
  /\ ret.was[ret.h] = 0
  /\ \E g \in Heaps : size[g] = 3 /\ Len(Roots(g)) = 2 /\ Cardinality(alive) = 3
  /\ nalloc = ForestNodes

\* C18: head is absent exactly when tail is; otherwise the sibling chain from
\* head visits each root once, ends at tail, and tail's sibling is absent.
C18_RootListEndsAtTail ==
  \A h \in Heaps :
    /\ head[h] = Null <=> tail[h] = Null
    /\ head[h] # Null =>
         /\ Roots(h)[Len(Roots(h))] = tail[h]
         /\ sibling[tail[h]] = Null
         /\ Cardinality({Roots(h)[i] : i \in 1..Len(Roots(h))}) = Len(Roots(h))

C18_Witness ==
  /\ ret.op = "extract_min"
  /\ ret.was[ret.h] = 4
  /\ RootDegrees(ret.h) = <<0, 1>>
  /\ degree[tail[ret.h]] = 1
  /\ nalloc = ForestNodes
  /\ \E g \in Heaps : g # ret.h /\ head[g] = Null /\ size[g] = 0

\* C19: on a lazy heap that was never the other heap of a merge, the root
\* that extract_min splices out is the node the cached min points at.
C19_RemovedRootIsMin ==
  [][\A h \in Heaps :
       (ret'.op = "extract_min" /\ ret'.h = h /\ head[h] # Null /\ h \notin sources) =>
         remove_min(h).min_node = min[h]]_vars

\* the number of roots of heaps 1..h together
RECURSIVE RootsUpTo(_)
RootsUpTo(h) == IF h = 0 THEN 0 ELSE Len(Roots(h)) + RootsUpTo(h - 1)

TotalRoots == RootsUpTo(Cardinality(Heaps))

\* the cost of extract_min on a heap h that is not empty, one unit per root
\* visited, per link and per bucket scanned: the scan of remove_min, the walk
\* over the children, the roots count_sort buckets, the buckets of the link
\* loop, the links, the buckets of the rebuild loop, the scan of update_min
extract_min_cost(h) ==
  LET c == consolidation(h)
  IN Len(Roots(h)) + Len(Kids(remove_min(h).min_node)) + c.roots
       + Len(c.count) + c.links + Len(c.count)
       + Len(Walk(c.sibling, c.head, Cardinality(Nodes)))

\* the amortized cost of extract_min on h: its cost plus three units for
\* every root the call adds to the root lists
extract_min_amortized(h, roots_before, roots_after) ==
  extract_min_cost(h) + 3 * (roots_after - roots_before)

C21_LinkResult ==
  \A a \in alive : \A b \in alive \ {a} :
    LET l == link([sibling |-> sibling, child |-> child, degree |-> degree], a, b)
        w == l.root
        o == IF w = a THEN b ELSE a
    IN /\ w \in {a, b}
       /\ key[w] <= key[o]
       /\ (key[a] = key[b] => w = a)
       /\ l.child[w] = o
       /\ l.sibling[o] = child[w]
       /\ l.degree[w] = degree[w] + 1
       /\ \A n \in Nodes \ {w} : l.child[n] = child[n] /\ l.degree[n] = degree[n]
       /\ \A n \in Nodes \ {o} : l.sibling[n] = sibling[n]

\* a root that won two links, the later one against a root of equal key
C21_Witness ==
  /\ ret.op = "extract_min"
  /\ \E n \in alive :
       /\ n = head[ret.h]
       /\ degree[n] = 2
       /\ key[child[n]] = key[n]
       /\ sibling[child[n]] # Null
       /\ key[sibling[child[n]]] > key[n]

\* the nodes reached from the nodes of S by the sibling and child links given
RECURSIVE Reach(_, _, _)
Reach(sib, ch, S) ==
  LET T == S \cup (({sib[n] : n \in S} \cup {ch[n] : n \in S}) \ {Null})
  IN IF T = S THEN S ELSE Reach(sib, ch, T)

\* the elements of sequence s, as a set
Range(s) == {s[i] : i \in DOMAIN s}

\* C22: consolidation neither drops nor duplicates a node: when the root list
\* is rebuilt every bucket holds at most one tree, the new root list is made
\* of exactly the trees left in the buckets, each once, and the nodes reached
\* from head after the call are those reached from head before it.
C22_ConsolidateKeepsNodes ==
  [][\A h \in Heaps :
       (ret'.op = "extract_min" /\ ret'.h = h /\ head[h] # Null) =>
         LET a == append_children(remove_min(h))
             c == consolidation(h)
             roots == Walk(c.sibling, c.head, Cardinality(Nodes) + 1)
         IN /\ \A i \in DOMAIN c.count : Len(c.count[i]) <= 1
            /\ Range(roots) = UNION {Range(c.count[i]) : i \in DOMAIN c.count}
            /\ Cardinality(Range(roots)) = Len(roots)
            /\ Reach(c.sibling, c.child, {c.head} \ {Null})
                 = Reach(a.sibling, child, {a.head} \ {Null})
            /\ Owned(h)' = Owned(h) \ {remove_min(h).min_node}]_vars

\* a consolidation of four roots that ends with one tree of four nodes
C22_Witness ==
  /\ ret.op = "extract_min"
  /\ ret.was[ret.h] = 5
  /\ Len(Roots(ret.h)) = 1
  /\ Cardinality(Owned(ret.h)) = 4

\* C24: insert and merge link nothing. They change no existing node's key,
\* degree or child; insert puts one new root of degree 0 behind the old
\* roots; merge puts other's roots, in their order, behind this heap's roots,
\* in theirs, and leaves other without roots. The number of roots is the old
\* number plus one, or the sum of the two old numbers.
C24_InsertAndMergeLinkNothing ==
  [][/\ \A h \in Heaps :
          (ret'.op = "insert" /\ ret'.h = h) =>
            /\ \A n \in alive :
                 key'[n] = key[n] /\ degree'[n] = degree[n] /\ child'[n] = child[n]
            /\ nalloc' \notin alive
            /\ degree'[nalloc'] = 0 /\ child'[nalloc'] = Null
            /\ Roots(h)' = Append(Roots(h), nalloc')
            /\ Len(Roots(h)') = Len(Roots(h)) + 1
            /\ \A g \in Heaps \ {h} : Roots(g)' = Roots(g)
     /\ \A a \in Heaps, b \in Heaps :
          (ret'.op = "merge" /\ ret'.h = a /\ ret'.o = b) =>
            /\ \A n \in alive :
                 key'[n] = key[n] /\ degree'[n] = degree[n] /\ child'[n] = child[n]
            /\ alive' = alive
            /\ Roots(a)' = Roots(a) \o Roots(b)
            /\ Len(Roots(a)') = Len(Roots(a)) + Len(Roots(b))
            /\ Roots(b)' = <<>>
            /\ \A g \in Heaps \ {a, b} : Roots(g)' = Roots(g)]_vars

\* a merge that left two roots of degree 0 behind a root of degree 1
C24_Witness ==
  /\ ret.op = "merge"
  /\ ret.was[ret.h] = 2
  /\ ret.was[ret.o] = 2
  /\ RootDegrees(ret.h) = <<1, 0, 0>>

\* C26: the child and sibling links of live nodes form a forest with single
\* ownership: no node reaches itself, every node is the target of at most one
\* child or sibling link, and no node is reached from the heads of two heaps.
C26_ForestSingleOwner ==
  /\ \A n \in alive : n \notin Reach(sibling, child, {sibling[n], child[n]} \ {Null})
  /\ \A n \in alive :
       Cardinality({m \in alive : sibling[m] = n})
         + Cardinality({m \in alive : child[m] = n}) <= 1
  /\ \A g \in Heaps, h \in Heaps : g # h => Owned(g) \cap Owned(h) = {}
  /\ \A h \in Heaps : Owned(h) \subseteq alive

\* two heaps that both own nodes, one of them a tree with a child
C26_Witness ==
  /\ ret.op = "insert"
  /\ size[ret.h] = 1
  /\ \E g \in Heaps :
       /\ g # ret.h
       /\ size[g] = 3
       /\ \E n \in Owned(g) : degree[n] = 1 /\ child[n] \in Owned(g)

\* the positions of the 1-bits of n, bit 0 being the lowest
RECURSIVE OneBits(_, _)
OneBits(n, i) ==
  IF n = 0 THEN {}
  ELSE (IF n % 2 = 1 THEN {i} ELSE {}) \cup OneBits(n \div 2, i + 1)

\* C27: right after an extract_min that leaves n >= 1 keys the degrees of the
\* roots are exactly the positions of the 1-bits of n, one root per position,
\* whatever the root list was before the call.
C27_RootDegreesAreBitsOfSize ==
  (ret.op = "extract_min" /\ size[ret.h] >= 1) =>
    /\ Range(RootDegrees(ret.h)) = OneBits(size[ret.h], 0)
    /\ Len(Roots(ret.h)) = Cardinality(OneBits(size[ret.h], 0))

\* the first extract_min on a heap of four roots of degree 0 leaves three
\* keys in a tree of degree 0 and a tree of degree 1
C27_Witness ==
  /\ ret.op = "extract_min"
  /\ ret.was[ret.h] = 4
  /\ nalloc = 4
  /\ Cardinality(alive) = 3
  /\ Range(RootDegrees(ret.h)) = {0, 1}
  /\ size[ret.h] = 3

\* --------------------------------------------- consolidate, step by step
\* insert and merge as before, and extract_min with its consolidate call run
\* one loop iteration at a time: StepBegin is extract_min up to count_sort
\* (lines 182-210 and 477), StepLink one turn of the while loop (lines
\* 486-493), StepNextBucket one turn of the for loop that links nothing
\* (lines 479-485), StepRebuild the exit from that loop (line 479), StepFinish
\* the rest of the call (lines 497-515 and 212-222). The heap's fields are
\* written when the call completes.
consolidate_begin(h) ==
  LET r  == remove_min(h)
      a  == append_children(r)
      cs == count_sort([sibling |-> a.sibling, degree |-> degree], a.head, r.size)
  IN IF a.head = Null
     THEN [cons EXCEPT !.h = h, !.i = 1, !.links = 0, !.roots = 0, !.oob = FALSE,
                       !.count = <<>>, !.sibling = a.sibling, !.child = child,
                       !.degree = degree]
     ELSE [cons EXCEPT !.h = h, !.i = 1, !.links = 0,
                       !.roots = Len(Chain(a.sibling, a.head)), !.oob = cs.oob,
                       !.count = cs.count, !.sibling = cs.sibling, !.child = child,
                       !.degree = degree]

\* a turn of the while loop that pops tree1 only and leaves tree2 in its bucket
consolidate_while_one_pop(c) ==
  LET n     == Len(c.count[c.i])
      tree1 == c.count[c.i][n]
      tree2 == c.count[c.i][n - 1]
      l     == link(c, tree1, tree2)
      rest  == [c.count EXCEPT ![c.i] = SubSeq(c.count[c.i], 1, n - 1)]
  IN [c EXCEPT !.sibling = l.sibling, !.child = l.child, !.degree = l.degree,
               !.links = c.links + 1,
               !.oob = c.oob \/ c.i + 1 \notin DOMAIN rest,
               !.count = IF c.i + 1 \in DOMAIN rest
                         THEN [rest EXCEPT ![c.i + 1] = Append(rest[c.i + 1], l.root)]
                         ELSE rest]

\* one turn of the while loop of consolidate on bucket c.i
consolidate_while(c) ==
  LET n     == Len(c.count[c.i])
      tree1 == c.count[c.i][n]
      tree2 == c.count[c.i][n - 1]
      l     == link(c, tree1, tree2)
      rest  == [c.count EXCEPT ![c.i] = SubSeq(c.count[c.i], 1, n - 2)]
  IN [c EXCEPT !.sibling = l.sibling, !.child = l.child, !.degree = l.degree,
               !.links = c.links + 1,
               !.oob = c.oob \/ c.i + 1 \notin DOMAIN rest,
               !.count = IF c.i + 1 \in DOMAIN rest
                         THEN [rest EXCEPT ![c.i + 1] = Append(rest[c.i + 1], l.root)]
                         ELSE rest]

StepInsert ==
  \E h \in 1..StepHeaps, k \in 1..StepKeys :
    /\ pc = "idle"
    /\ nalloc < StepNodes
    /\ insert(h, k)
    /\ UNCHANGED <<scriptVars, unsVars, srtVars>>

StepMerge ==
  \E a \in 1..StepHeaps, b \in 1..StepHeaps :
    /\ pc = "idle"
    /\ merge(a, b)
    /\ UNCHANGED <<scriptVars, unsVars, srtVars>>

StepBegin ==
  \E h \in 1..StepHeaps :
    /\ pc = "idle"
    /\ head[h] # Null
    /\ pc' = "link"
    /\ cons' = consolidate_begin(h)
    /\ UNCHANGED <<lazyVars, inserted, extracted, kind, sources, freed, torn, unsVars, srtVars>>

StepLink ==
  /\ pc = "link"
  /\ cons.i <= Len(cons.count)
  /\ Len(cons.count[cons.i]) > 1
  /\ cons' = consolidate_while(cons)
  /\ UNCHANGED <<lazyVars, pc, inserted, extracted, kind, sources, freed, torn, unsVars, srtVars>>

StepNextBucket ==
  /\ pc = "link"
  /\ cons.i <= Len(cons.count)
  /\ Len(cons.count[cons.i]) <= 1
  /\ cons' = [cons EXCEPT !.i = cons.i + 1]
  /\ UNCHANGED <<lazyVars, pc, inserted, extracted, kind, sources, freed, torn, unsVars, srtVars>>

StepRebuild ==
  /\ pc = "link"
  /\ cons.i > Len(cons.count)
  /\ pc' = "rebuild"
  /\ UNCHANGED <<lazyVars, inserted, extracted, kind, sources, cons, freed, torn, unsVars, srtVars>>

StepFinish ==
  /\ pc = "rebuild"
  /\ extract_min(cons.h)
  /\ pc' = "idle"
  /\ cons' = no_consolidate
  /\ UNCHANGED <<inserted, extracted, kind, sources, freed, torn, unsVars, srtVars>>

StepNext ==
  \/ StepInsert
  \/ StepMerge
  \/ StepBegin
  \/ StepLink
  \/ StepNextBucket
  \/ StepRebuild
  \/ StepFinish

\* the loops of a call that has begun run on: nothing else is scheduled
\* while the call runs
StepSpec ==
  Init /\ [][StepNext]_vars /\ WF_vars(StepLink \/ StepNextBucket \/ StepRebuild)

\* the trees that are in the buckets of the consolidate call under way
RECURSIVE InBuckets(_, _)
InBuckets(count, i) ==
  IF i > Len(count) THEN 0 ELSE Len(count[i]) + InBuckets(count, i + 1)

\* C23: every consolidation terminates, and one that starts with r roots and
\* makes L links ends with r - L roots: while it runs the buckets hold r minus
\* the links made so far trees, and when it ends the links it made, the
\* buckets and the node fields are those of the whole call and the root list
\* has r - L roots.
C23_ConsolidateTerminates ==
  /\ (pc = "link") ~> (pc = "rebuild")
  /\ [](pc \in {"link", "rebuild"} =>
          /\ InBuckets(cons.count, 1) = cons.roots - cons.links
          /\ cons.links <= cons.roots)
  /\ [][(pc = "rebuild" /\ pc' = "idle") =>
          \A h \in {cons.h} :
          LET c == consolidation(h)
          IN /\ c.links = cons.links
             /\ c.roots = cons.roots
             /\ c.count = cons.count
             /\ c.child = cons.child
             /\ c.degree = cons.degree
             /\ Len(Roots(h)') = cons.roots - cons.links
             /\ \A n \in alive' : degree'[n] = cons.degree[n]]_vars

\* the link loop of a consolidation of four roots has ended after three
\* links with one tree in the buckets
C23_Witness ==
  /\ pc = "rebuild"
  /\ cons.roots = 4
  /\ cons.links = 3
  /\ InBuckets(cons.count, 1) = 1

\* ------------------------------------------------------------ destruction
\* Node::~Node with `delete child` left out
RECURSIVE delete_node_no_child(_, _, _, _)
delete_node_no_child(sib, ch, n, fuel) ==
  IF n = Null \/ fuel = 0 THEN <<>>
  ELSE delete_node_no_child(sib, ch, sib[n], fuel - 1) \o <<n>>

\* `delete n` with Node::~Node, lines 70-74: the nodes destroyed, one entry for
\* each destruction: those behind n's sibling, those behind n's child, then n
RECURSIVE delete_node(_, _, _, _)
delete_node(sib, ch, n, fuel) ==
  IF n = Null \/ fuel = 0 THEN <<>>
  ELSE delete_node(sib, ch, sib[n], fuel - 1)
         \o delete_node(sib, ch, ch[n], fuel - 1) \o <<n>>

\* freed, with one more destruction counted for each entry of d
destroyed(d) ==
  [n \in Nodes |-> freed[n] + Cardinality({i \in DOMAIN d : d[i] = n})]

\* LazyBinomialHeap::~LazyBinomialHeap, lines 109-112: delete head. The heap
\* object is gone afterwards, and so are the nodes the destructors ran on.
destroy_heap(h) ==
  LET d == delete_node(sibling, child, head[h], 2 * Cardinality(Nodes))
      gone == {d[i] : i \in DOMAIN d}
  IN /\ freed' = destroyed(d)
     /\ torn' = torn \cup {h}
     /\ alive' = alive \ gone
     /\ key' = [n \in Nodes |-> IF n \in gone THEN Null ELSE key[n]]
     /\ degree' = [n \in Nodes |-> IF n \in gone THEN 0 ELSE degree[n]]
     /\ sibling' = [n \in Nodes |-> IF n \in gone THEN Null ELSE sibling[n]]
     /\ child' = [n \in Nodes |-> IF n \in gone THEN Null ELSE child[n]]
     /\ head' = [head EXCEPT ![h] = Null]
     /\ tail' = [tail EXCEPT ![h] = Null]
     /\ min' = [min EXCEPT ![h] = Null]
     /\ size' = [size EXCEPT ![h] = 0]
     /\ ub' = (ub \/ \E i \in DOMAIN d : d[i] \notin alive \/ \E j \in DOMAIN d : j # i /\ d[j] = d[i])
     /\ ret' = Call("destroy", h, Null, Absent)
     /\ UNCHANGED nalloc

\* any interleaving of insert, extract_min and merge on TearHeaps lazy heaps
\* that are still there, and the destruction of each heap at any moment
TearInsert ==
  \E h \in (1..TearHeaps) \ torn, k \in 1..TearKeys :
    /\ nalloc < TearNodes
    /\ insert(h, k)
    /\ UNCHANGED <<scriptVars, unsVars, srtVars>>

\* extract_min, with `delete min_node` of line 220 counted
TearExtract ==
  \E h \in (1..TearHeaps) \ torn :
    /\ extract_min(h)
    /\ freed' = destroyed(delete_node(sibling', child', remove_min(h).min_node,
                                      2 * Cardinality(Nodes)))
    /\ UNCHANGED <<pc, inserted, extracted, kind, sources, cons, torn, unsVars, srtVars>>

TearMerge ==
  \E a \in (1..TearHeaps) \ torn, b \in (1..TearHeaps) \ torn :
    merge(a, b) /\ UNCHANGED <<scriptVars, unsVars, srtVars>>

TearDown ==
  \E h \in (1..TearHeaps) \ torn :
    /\ destroy_heap(h)
    /\ UNCHANGED <<pc, inserted, extracted, kind, sources, cons, unsVars, srtVars>>

TearNext == TearInsert \/ TearExtract \/ TearMerge \/ TearDown

TearSpec == Init /\ [][TearNext]_vars

\* C25: an extract_min that returns a key destroys exactly one node, the
\* extracted one, which is no longer in the heap, and one that returns absent
\* destroys none; no node is ever destroyed twice and no node of a heap that
\* is still there is destroyed; once every heap is destroyed, every node that
\* insert created has been destroyed exactly once.
C25_EveryNodeDestroyedOnce ==
  /\ [](\A n \in Nodes : freed[n] <= 1)
  /\ [](\A h \in (1..TearHeaps) \ torn : \A n \in Owned(h) : freed[n] = 0)
  /\ [](torn = 1..TearHeaps => \A n \in 1..nalloc : freed[n] = 1)
  /\ [][\A h \in Heaps :
          (ret'.op = "extract_min" /\ ret'.h = h) =>
            IF ret'.val = Absent THEN freed' = freed
            ELSE LET m == remove_min(h).min_node
                 IN /\ freed' = [freed EXCEPT ![m] = 1]
                    /\ freed[m] = 0
                    /\ m \in Owned(h)
                    /\ m \notin Owned(h)'
                    /\ Owned(h)' = Owned(h) \ {m}]_vars

\* every heap is destroyed, the last one while it held one tree of degree 2,
\* and all five nodes were destroyed once
C25_Witness ==
  /\ torn = 1..TearHeaps
  /\ nalloc = 5
  /\ ret.op = "destroy"
  /\ ret.was[ret.h] = 4
  /\ \A n \in 1..nalloc : freed[n] = 1

\* ------------------------------------------------- the heap.h revision
\* src/heap.h declares the same Node and the same members min, head, tail and
\* size as src/lazy.h, and its update_min, remove_min, link, count_sort and
\* consolidate are the same statements; insert, the way extract_min puts the
\* children on the root list and the call of update_min differ.

\* MergeableHeap::insert of heap.h: the new node goes in front of the root list
heap_insert(h, k) ==
  /\ nalloc < Cardinality(Nodes)
  /\ LET temp == nalloc + 1
     IN /\ nalloc' = temp
        /\ alive' = alive \cup {temp}
        /\ key' = [key EXCEPT ![temp] = k]
        /\ degree' = [degree EXCEPT ![temp] = 0]
        /\ child' = [child EXCEPT ![temp] = Null]
        /\ size' = [size EXCEPT ![h] = size[h] + 1]
        /\ sibling' = [sibling EXCEPT ![temp] = head[h]]
        /\ tail' = IF head[h] # Null THEN tail ELSE [tail EXCEPT ![h] = temp]
        /\ head' = [head EXCEPT ![h] = temp]
        /\ IF min[h] = Null
           THEN min' = [min EXCEPT ![h] = temp] /\ ub' = ub
           ELSE /\ \E mk \in ReadKey(min[h]) :
                     min' = [min EXCEPT ![h] = IF k < mk THEN temp ELSE min[h]]
                /\ ub' = (ub \/ min[h] \notin alive)
        /\ ret' = Call("insert", h, Null, Absent)

\* extract_min of heap.h, lines 270-291: the children of the removed root go
\* in front of the root list
heap_prepend_children(r) ==
  LET first_child == child[r.min_node]
      last_child  == LastOf(r.sibling, first_child)
  IN IF first_child = Null
     THEN [sibling |-> r.sibling, head |-> r.head, tail |-> r.tail]
     ELSE [sibling |-> IF r.head # Null
                       THEN [r.sibling EXCEPT ![last_child] = r.head]
                       ELSE r.sibling,
           head    |-> first_child,
           tail    |-> IF r.head # Null THEN r.tail ELSE last_child]

\* MergeableHeap::extract_min of heap.h: update_min runs only when the removed
\* node is the one min points to
heap_extract_min(h) ==
  \E r \in {remove_min(h)} :
    IF r.min_node = Null
    THEN /\ ret' = Call("extract_min", h, Null, Absent)
         /\ UNCHANGED <<key, degree, sibling, child, alive, nalloc, min, head, tail, size, ub>>
    ELSE \E a \in {heap_prepend_children(r)} :
         \E c \in {consolidate([sibling |-> a.sibling, child |-> child, degree |-> degree,
                                head |-> a.head, tail |-> a.tail], r.size)} :
            /\ sibling' = [c.sibling EXCEPT ![r.min_node] = Null]
            /\ child' = [c.child EXCEPT ![r.min_node] = Null]
            /\ degree' = [c.degree EXCEPT ![r.min_node] = 0]
            /\ key' = [key EXCEPT ![r.min_node] = Null]
            /\ head' = [head EXCEPT ![h] = c.head]
            /\ tail' = [tail EXCEPT ![h] = c.tail]
            /\ size' = [size EXCEPT ![h] = r.size]
            /\ min' = [min EXCEPT ![h] = IF min[h] = r.min_node
                                         THEN update_min(c.sibling, c.head)
                                         ELSE min[h]]
            /\ alive' = alive \ {r.min_node}
            /\ ub' = (ub \/ c.oob)
            /\ ret' = Call("extract_min", h, Null, key[r.min_node])
            /\ UNCHANGED nalloc

\* MergeableHeap::merge of heap.h: statement by statement that of lazy.h
heap_merge(a, b) == merge(a, b)

\* any interleaving of insert, extract_min and merge on OldHeaps heaps of the
\* heap.h revision; `sources` keeps the heaps that were merged away, and a
\* heap that was merged away is not used again
OldInsert ==
  \E h \in (1..OldHeaps) \ sources, k \in 1..OldKeys :
    nalloc < OldNodes /\ heap_insert(h, k) /\ UNCHANGED <<scriptVars, unsVars, srtVars>>

OldExtract ==
  \E h \in (1..OldHeaps) \ sources :
    heap_extract_min(h) /\ UNCHANGED <<scriptVars, unsVars, srtVars>>

OldMerge ==
  \E a \in (1..OldHeaps) \ sources, b \in (1..OldHeaps) \ sources :
    /\ heap_merge(a, b)
    /\ sources' = sources \cup {b}
    /\ UNCHANGED <<pc, inserted, extracted, kind, cons, freed, torn, unsVars, srtVars>>

OldNext == OldInsert \/ OldExtract \/ OldMerge

OldSpec == Init /\ [][OldNext]_vars

\* C28: in the heap.h revision, for a heap that was never the other heap of a
\* merge, min is absent exactly when the heap is empty, and otherwise it
\* references a node on the heap's root list whose key is <= every key in
\* the heap.
C28_OldMinIsLeastRoot ==
  \A h \in (1..OldHeaps) \ sources :
    /\ (min[h] = Null) <=> (size[h] = 0)
    /\ min[h] # Null =>
         /\ min[h] \in Range(Roots(h))
         /\ \A n \in Owned(h) : key[min[h]] <= key[n]

\* --------------------------------------------- the unsorted backend alone
\* any interleaving of insert, minimum, extract_min and merge on UnsHeaps
\* unsorted heaps
UnsInsert ==
  \E h \in 1..UnsHeaps, k \in Keys :
    u_nalloc < UnsNodes /\ u_insert(h, k) /\ UNCHANGED <<lazyVars, scriptVars, srtVars>>

UnsMinimum ==
  \E h \in 1..UnsHeaps : u_minimum(h) /\ UNCHANGED <<lazyVars, scriptVars, srtVars>>

UnsExtract ==
  \E h \in 1..UnsHeaps : u_extract_min(h) /\ UNCHANGED <<lazyVars, scriptVars, srtVars>>

UnsMerge ==
  \E a \in 1..UnsHeaps, b \in 1..UnsHeaps :
    u_merge(a, b) /\ UNCHANGED <<lazyVars, scriptVars, srtVars>>

UnsNext == UnsInsert \/ UnsMinimum \/ UnsExtract \/ UnsMerge

UnsSpec == Init /\ [][UnsNext]_vars

\* the nodes of unsorted heap h, from head along next
u_list(h) == Walk(u_next, u_head[h], Cardinality(Nodes))

\* C29: in UnsortedLinkedHeap min is absent exactly when the list is empty,
\* and otherwise it references a node of the heap's own list whose key is <=
\* every key in the list; right after merge(a, b) with b non-empty, b's head,
\* tail and min are all absent.
C29_UnsortedMinIsLeast ==
  /\ \A h \in Heaps :
       /\ (u_min[h] = Null) <=> (u_head[h] = Null)
       /\ u_min[h] # Null =>
            /\ u_min[h] \in Range(u_list(h))
            /\ \A n \in Range(u_list(h)) : u_key[u_min[h]] <= u_key[n]
  /\ (u_ret.op = "merge" /\ u_ret.was[u_ret.o] > 0) =>
       /\ u_head[u_ret.o] = Null
       /\ u_tail[u_ret.o] = Null
       /\ u_min[u_ret.o] = Null

\* a merge of two non-empty heaps after which min is a node that came from
\* the other heap
C29_Witness ==
  /\ u_ret.op = "merge"
  /\ u_ret.was[u_ret.h] = 2
  /\ u_ret.was[u_ret.o] = 2
  /\ Len(u_list(u_ret.h)) = 4
  /\ u_min[u_ret.h] = u_tail[u_ret.h]
  /\ u_key[u_min[u_ret.h]] < u_key[u_head[u_ret.h]]

\* sequence s without the entries equal to x
RECURSIVE Without(_, _)
Without(s, x) ==
  IF s = <<>> THEN <<>>
  ELSE (IF Head(s) = x THEN <<>> ELSE <<Head(s)>>) \o Without(Tail(s), x)

\* C30: between operations every unsorted list is consistently doubly linked:
\* head is absent exactly when tail is, head's prev is absent, tail is the
\* last node and its next is absent, and n.next.prev is n for every node n
\* with a next node; an extract_min that returns a key removes the node min
\* referenced from its list and nothing else, and changes no other list.
C30_UnsortedDoublyLinked ==
  /\ [](\A h \in Heaps :
          /\ (u_head[h] = Null) <=> (u_tail[h] = Null)
          /\ u_head[h] # Null =>
               /\ u_prev[u_head[h]] = Null
               /\ u_next[u_tail[h]] = Null
               /\ u_tail[h] = u_list(h)[Len(u_list(h))]
               /\ \A n \in Range(u_list(h)) :
                    u_next[n] # Null => u_prev[u_next[n]] = n)
  /\ [][\A h \in Heaps :
          (u_ret'.op = "extract_min" /\ u_ret'.h = h /\ u_ret'.val # Absent) =>
            /\ u_list(h)' = Without(u_list(h), u_min[h])
            /\ Len(u_list(h)') = Len(u_list(h)) - 1
            /\ u_alive' = u_alive \ {u_min[h]}
            /\ \A g \in Heaps \ {h} : u_list(g)' = u_list(g)]_vars

\* an extract_min took the first node ever created out of a list of three;
\* the two nodes that are left are linked to each other both ways
C30_Witness ==
  /\ u_ret.op = "extract_min"
  /\ u_ret.was[u_ret.h] = 3
  /\ u_nalloc = 3
  /\ u_list(u_ret.h) = <<2, 3>>
  /\ u_prev[3] = 2
  /\ u_next[2] = 3
  /\ 1 \notin u_alive

\* the nodes of sorted heap h, from head along next
s_list(h) == Walk(s_next, s_head[h], Cardinality(Nodes))

\* C31: in the doubly linked SortedLinkedHeap the prev fields mirror the next
\* fields after every insert, extract_min and merge: head's prev is absent,
\* and n.next.prev is n for every listed node n that has a next node.
C31_SortedPrevMirrorsNext ==
  \A h \in Heaps :
    s_head[h] # Null =>
      /\ s_prev[s_head[h]] = Null
      /\ \A n \in Range(s_list(h)) : s_next[n] # Null => s_prev[s_next[n]] = n

====
